---- MODULE Spec2Model ----
(***************************************************************************)
(* A model of the starter scaffold's executable parts:                     *)
(*   - the six auth wrappers of src/lib/supabase/auth.ts, each an async    *)
(*     function that obtains the backend client, makes one awaited SDK     *)
(*     call and returns what it destructured from the call's result;       *)
(*   - the PocketBase Docker bootstrap script.                             *)
(* Each wrapper invocation is a small process (idle -> awaiting ->         *)
(* settled -> done) so that concurrent invocations interleave at their     *)
(* single await.  The script is a linear program over a small host.        *)
(***************************************************************************)
EXTENDS Integers, Sequences, FiniteSets, TLC

(***************************************************************************)
(* Bounds of the model.                                                    *)
(***************************************************************************)
MaxInv == 2

Inv == 1..MaxInv

(***************************************************************************)
(* Values the callers and the SDK are drawn from.                          *)
(***************************************************************************)
Null == "null"

\* email and password strings a caller can pass: empty, malformed, well formed
Emails == {"", "not-an-email", "a@x.io"}
Passwords == {"", "pw"}

\* auth.ts:28  provider: "google" | "github" | "discord"
Providers == {"google", "github", "discord"}

\* window.location.origin of the page, when there is a window
Origins == {"https://app.example", "http://localhost:3000"}

\* payloads the SDK can produce
SdkData == {"d1"}
SdkErrors == {"e1", "e2"}

\* what evaluating `window` throws where no window exists
ReferenceError == "ReferenceError: window is not defined"

Wrappers ==
    {"signInWithEmail", "signUpWithEmail", "signOut",
     "signInWithOAuth", "resetPassword", "updatePassword"}

NoClient == 0

\* a promise that has not settled
NoOutcome == [kind |-> "none", value |-> Null]

VARIABLES
    windowDefined,  \* does the global `window` exist in this process
    origin,         \* window.location.origin (Null without a window)
    client,         \* the process-wide backend client handle, NoClient before initialisation
    clientsCreated, \* how many client handles have been constructed
    pc,             \* pc[i]: position of invocation i
    wrapper,        \* wrapper[i]: the wrapper invoked
    args,           \* args[i]: the caller's positional arguments
    handle,         \* handle[i]: the client handle createClient() returned to it
    sdkCalls,       \* sdkCalls[i]: sequence of the SDK calls the invocation issued
    sdkOut,         \* sdkOut[i]: how its SDK call settled
    outcome         \* outcome[i]: how the wrapper's own promise settled

authVars ==
    <<windowDefined, origin, client, clientsCreated, pc, wrapper, args,
      handle, sdkCalls, sdkOut, outcome>>

----------------------------------------------------------------------------
(***************************************************************************)
(* The wrappers as pure functions of their arguments.                      *)
(***************************************************************************)

\* the positional parameters each wrapper declares
Params(w) ==
    CASE w = "signInWithEmail" -> <<"email", "password">>
      [] w = "signUpWithEmail" -> <<"email", "password">>
      [] w = "signOut"         -> <<>>
      [] w = "signInWithOAuth" -> <<"provider">>
      [] w = "resetPassword"   -> <<"email">>
      [] w = "updatePassword"  -> <<"password">>

\* the argument tuples a caller can pass to wrapper w, with emails drawn
\* from E, passwords from P and providers from V
CallerArgsFrom(w, E, P, V) ==
    CASE w = "signInWithEmail" -> E \X P
      [] w = "signUpWithEmail" -> E \X P
      [] w = "signOut"         -> {<<>>}
      [] w = "signInWithOAuth" -> {<<p>> : p \in V}
      [] w = "resetPassword"   -> {<<e>> : e \in E}
      [] w = "updatePassword"  -> {<<p>> : p \in P}

CallerArgs(w) == CallerArgsFrom(w, Emails, Passwords, Providers)

\* one argument tuple per wrapper, for runs of several invocations
OneArgs(w) == CallerArgsFrom(w, {"a@x.io"}, {"pw"}, {"github"})

\* a sign-up wrapper that calls the sign-in method
SdkMethodSignUpSignsIn(w) ==
    CASE w = "signInWithEmail" -> "signInWithPassword"
      [] w = "signUpWithEmail" -> "signInWithPassword"
      [] w = "signOut"         -> "signOut"
      [] w = "signInWithOAuth" -> "signInWithOAuth"
      [] w = "resetPassword"   -> "resetPasswordForEmail"
      [] w = "updatePassword"  -> "updateUser"

\* the SDK auth method each wrapper calls
SdkMethod(w) ==
    CASE w = "signInWithEmail" -> "signInWithPassword"
      [] w = "signUpWithEmail" -> "signUp"
      [] w = "signOut"         -> "signOut"
      [] w = "signInWithOAuth" -> "signInWithOAuth"
      [] w = "resetPassword"   -> "resetPasswordForEmail"
      [] w = "updatePassword"  -> "updateUser"

\* does building the call's arguments read window.location.origin
ReadsWindow(w) == w \in {"signInWithOAuth", "resetPassword"}

\* redirect URLs with the development host written into them
RedirectToLocalhost(w, org) ==
    CASE w = "signInWithOAuth" -> "http://localhost:3000" \o "/auth/callback"
      [] w = "resetPassword"   -> "http://localhost:3000" \o "/auth/reset-password"

\* the template literal `${window.location.origin}/auth/...`
RedirectTo(w, org) ==
    CASE w = "signInWithOAuth" -> org \o "/auth/callback"
      [] w = "resetPassword"   -> org \o "/auth/reset-password"

\* arguments whose redirect URL carries the caller's value along
SdkArgsRedirectFromCaller(w, a, org) ==
    CASE w = "signInWithEmail" -> {<<"email", a[1]>>, <<"password", a[2]>>}
      [] w = "signUpWithEmail" -> {<<"email", a[1]>>, <<"password", a[2]>>}
      [] w = "signOut"         -> {}
      [] w = "signInWithOAuth" ->
            {<<"provider", a[1]>>,
             <<"options.redirectTo", RedirectTo(w, org) \o "/" \o a[1]>>}
      [] w = "resetPassword"   ->
            {<<"email", a[1]>>,
             <<"options.redirectTo", RedirectTo(w, org) \o "?email=" \o a[1]>>}
      [] w = "updatePassword"  -> {<<"password", a[1]>>}

\* arguments that always name google as the OAuth provider
SdkArgsGoogleOnly(w, a, org) ==
    CASE w = "signInWithEmail" -> {<<"email", a[1]>>, <<"password", a[2]>>}
      [] w = "signUpWithEmail" -> {<<"email", a[1]>>, <<"password", a[2]>>}
      [] w = "signOut"         -> {}
      [] w = "signInWithOAuth" ->
            {<<"provider", "google">>, <<"options.redirectTo", RedirectTo(w, org)>>}
      [] w = "resetPassword"   ->
            {<<"email", a[1]>>, <<"options.redirectTo", RedirectTo(w, org)>>}
      [] w = "updatePassword"  -> {<<"password", a[1]>>}

\* arguments built with email and password crossed over in the sign-up object
SdkArgsCrossed(w, a, org) ==
    CASE w = "signInWithEmail" -> {<<"email", a[1]>>, <<"password", a[2]>>}
      [] w = "signUpWithEmail" -> {<<"email", a[2]>>, <<"password", a[1]>>}
      [] w = "signOut"         -> {}
      [] w = "signInWithOAuth" ->
            {<<"provider", a[1]>>, <<"options.redirectTo", RedirectTo(w, org)>>}
      [] w = "resetPassword"   ->
            {<<"email", a[1]>>, <<"options.redirectTo", RedirectTo(w, org)>>}
      [] w = "updatePassword"  -> {<<"password", a[1]>>}

\* the arguments handed to the SDK method, as a set of <<field, value>> pairs
SdkArgs(w, a, org) ==
    CASE w = "signInWithEmail" -> {<<"email", a[1]>>, <<"password", a[2]>>}
      [] w = "signUpWithEmail" -> {<<"email", a[1]>>, <<"password", a[2]>>}
      [] w = "signOut"         -> {}
      [] w = "signInWithOAuth" ->
            {<<"provider", a[1]>>, <<"options.redirectTo", RedirectTo(w, org)>>}
      [] w = "resetPassword"   ->
            {<<"email", a[1]>>, <<"options.redirectTo", RedirectTo(w, org)>>}
      [] w = "updatePassword"  -> {<<"password", a[1]>>}

\* the fields each wrapper destructures from the SDK result and returns
ReturnedFields(w) ==
    IF w = "signOut" THEN {"error"} ELSE {"data", "error"}

\* the result objects the SDK method of wrapper w can resolve with
SdkResults(w) ==
    IF w = "signOut"
    THEN {[error |-> e] : e \in SdkErrors \cup {Null}}
    ELSE {[data |-> d, error |-> Null] : d \in SdkData}
         \cup {[data |-> Null, error |-> e] : e \in SdkErrors}

\* the ways the SDK call of wrapper w can settle: resolve with a result
\* object, or reject (throw) with an error
SdkOutcomes(w) ==
    {[kind |-> "return", value |-> r] : r \in SdkResults(w)}
    \cup {[kind |-> "throw", value |-> e] : e \in SdkErrors}

\* a wrapper that returns the error but loses the data of the result
WrapperOutcomeLosingData(w, out) ==
    IF out.kind = "throw"
    THEN [kind |-> "throw", value |-> out.value]
    ELSE [kind |-> "return",
          value |-> [f \in ReturnedFields(w) |->
                       IF f = "data" THEN Null ELSE out.value[f]]]

\* a wrapper that catches a rejection and returns it as an error object
WrapperOutcomeCatching(w, out) ==
    IF out.kind = "throw"
    THEN [kind |-> "return",
          value |-> [f \in ReturnedFields(w) |->
                       IF f = "error" THEN out.value ELSE Null]]
    ELSE [kind |-> "return",
          value |-> [f \in ReturnedFields(w) |-> out.value[f]]]

\* const { data, error } = await ...; return { data, error };
\* a rejection of the awaited call propagates: there is no try/catch
WrapperOutcome(w, out) ==
    IF out.kind = "throw"
    THEN [kind |-> "throw", value |-> out.value]
    ELSE [kind |-> "return",
          value |-> [f \in ReturnedFields(w) |-> out.value[f]]]

----------------------------------------------------------------------------
(***************************************************************************)
(* The backend client.                                                     *)
(***************************************************************************)

\* a createClient() that constructs a new client on every call
createClientPerCall(i) ==
    /\ client' = clientsCreated + 1
    /\ clientsCreated' = clientsCreated + 1
    /\ handle' = [handle EXCEPT ![i] = client']

\* createClient(): hands out the process-wide handle, initialising it the
\* first time
createClient(i) ==
    /\ client' = (IF client = NoClient THEN clientsCreated + 1 ELSE client)
    /\ clientsCreated' =
          (IF client = NoClient THEN clientsCreated + 1 ELSE clientsCreated)
    /\ handle' = [handle EXCEPT ![i] = client']

----------------------------------------------------------------------------
(***************************************************************************)
(* One wrapper invocation.                                                 *)
(***************************************************************************)

AuthInit ==
    /\ windowDefined \in BOOLEAN
    /\ origin \in (IF windowDefined THEN Origins ELSE {Null})
    /\ client = NoClient
    /\ clientsCreated = 0
    /\ pc = [i \in Inv |-> "idle"]
    /\ wrapper = [i \in Inv |-> Null]
    /\ args = [i \in Inv |-> <<>>]
    /\ handle = [i \in Inv |-> NoClient]
    /\ sdkCalls = [i \in Inv |-> <<>>]
    /\ sdkOut = [i \in Inv |-> NoOutcome]
    /\ outcome = [i \in Inv |-> NoOutcome]

\* a wrapper that remembers results: an invocation identical to an earlier
\* one that returned a value hands that value back without calling the SDK
CallCached(i, w, a) ==
    /\ pc[i] = "idle"
    /\ \A j \in Inv : j < i => pc[j] # "idle"
    /\ wrapper' = [wrapper EXCEPT ![i] = w]
    /\ args' = [args EXCEPT ![i] = a]
    /\ createClient(i)
    /\ IF \E j \in Inv : /\ wrapper[j] = w /\ args[j] = a
                         /\ pc[j] = "done" /\ outcome[j].kind = "return"
       THEN /\ pc' = [pc EXCEPT ![i] = "done"]
            /\ outcome' = [outcome EXCEPT ![i] =
                   outcome[CHOOSE j \in Inv :
                              /\ wrapper[j] = w /\ args[j] = a
                              /\ pc[j] = "done" /\ outcome[j].kind = "return"]]
            /\ UNCHANGED sdkCalls
       ELSE IF ReadsWindow(w) /\ ~windowDefined
       THEN /\ pc' = [pc EXCEPT ![i] = "done"]
            /\ outcome' = [outcome EXCEPT ![i] =
                           [kind |-> "throw", value |-> ReferenceError]]
            /\ UNCHANGED sdkCalls
       ELSE /\ pc' = [pc EXCEPT ![i] = "awaiting"]
            /\ sdkCalls' = [sdkCalls EXCEPT ![i] = Append(@,
                            [method |-> SdkMethod(w),
                             args   |-> SdkArgs(w, a, origin),
                             client |-> handle'[i]])]
            /\ UNCHANGED outcome
    /\ UNCHANGED <<windowDefined, origin, sdkOut>>

\* A caller invokes wrapper w with arguments a.  The body runs synchronously
\* up to its await: createClient(), then the argument expressions, then the
\* SDK call.  Where `window` does not exist, evaluating the redirect URL
\* throws and the async function's promise rejects before any SDK call.
Call(i, w, a) ==
    /\ pc[i] = "idle"
    /\ \A j \in Inv : j < i => pc[j] # "idle"
    /\ wrapper' = [wrapper EXCEPT ![i] = w]
    /\ args' = [args EXCEPT ![i] = a]
    /\ createClient(i)
    /\ IF ReadsWindow(w) /\ ~windowDefined
       THEN /\ pc' = [pc EXCEPT ![i] = "done"]
            /\ outcome' = [outcome EXCEPT ![i] =
                           [kind |-> "throw", value |-> ReferenceError]]
            /\ UNCHANGED sdkCalls
       ELSE /\ pc' = [pc EXCEPT ![i] = "awaiting"]
            /\ sdkCalls' = [sdkCalls EXCEPT ![i] = Append(@,
                            [method |-> SdkMethod(w),
                             args   |-> SdkArgs(w, a, origin),
                             client |-> handle'[i]])]
            /\ UNCHANGED outcome
    /\ UNCHANGED <<windowDefined, origin, sdkOut>>

\* The SDK call of invocation i settles (the network answers).
SdkSettle(i, out) ==
    /\ pc[i] = "awaiting"
    /\ out \in SdkOutcomes(wrapper[i])
    /\ pc' = [pc EXCEPT ![i] = "settled"]
    /\ sdkOut' = [sdkOut EXCEPT ![i] = out]
    /\ UNCHANGED <<windowDefined, origin, client, clientsCreated, wrapper,
                   args, handle, sdkCalls, outcome>>

\* did the SDK call of invocation i fail (an error object, or a rejection)
SdkFailed(i) ==
    \/ sdkOut[i].kind = "throw"
    \/ sdkOut[i].kind = "return" /\ sdkOut[i].value.error # Null

\* invocations that keep the settled result in one variable of the module:
\* each continues with whatever another settled call left there
AwaitedOutcomeShared(i) ==
    IF \E j \in Inv : j # i /\ sdkOut[j].kind # "none"
    THEN sdkOut[CHOOSE j \in Inv : j # i /\ sdkOut[j].kind # "none"]
    ELSE sdkOut[i]

\* the settled call whose outcome invocation i continues with: its own
AwaitedOutcome(i) == sdkOut[i]

\* a wrapper whose continuation runs for a fulfilled call only: when the SDK
\* call rejects, the wrapper's promise stays pending
ResumeDroppingRejection(i) ==
    /\ pc[i] = "settled"
    /\ sdkOut[i].kind = "return"
    /\ pc' = [pc EXCEPT ![i] = "done"]
    /\ outcome' = [outcome EXCEPT ![i] =
                   WrapperOutcome(wrapper[i], sdkOut[i])]
    /\ UNCHANGED <<windowDefined, origin, client, clientsCreated, wrapper,
                   args, handle, sdkCalls, sdkOut>>

\* a wrapper that calls the SDK method a second time when the first call failed
ResumeRetrying(i) ==
    /\ pc[i] = "settled"
    /\ IF SdkFailed(i) /\ Len(sdkCalls[i]) < 2
       THEN /\ pc' = [pc EXCEPT ![i] = "awaiting"]
            /\ sdkCalls' = [sdkCalls EXCEPT ![i] = Append(@, @[1])]
            /\ UNCHANGED outcome
       ELSE /\ pc' = [pc EXCEPT ![i] = "done"]
            /\ outcome' = [outcome EXCEPT ![i] =
                           WrapperOutcome(wrapper[i], sdkOut[i])]
            /\ UNCHANGED sdkCalls
    /\ UNCHANGED <<windowDefined, origin, client, clientsCreated, wrapper,
                   args, handle, sdkOut>>

\* The event loop resumes invocation i after its await: it destructures the
\* result and returns, or the rejection propagates.
Resume(i) ==
    /\ pc[i] = "settled"
    /\ pc' = [pc EXCEPT ![i] = "done"]
    /\ outcome' = [outcome EXCEPT ![i] =
                   WrapperOutcome(wrapper[i], AwaitedOutcome(i))]
    /\ UNCHANGED <<windowDefined, origin, client, clientsCreated, wrapper,
                   args, handle, sdkCalls, sdkOut>>


----------------------------------------------------------------------------
(***************************************************************************)
(* The PocketBase Docker bootstrap script (bash, under set -e).            *)
(***************************************************************************)

\* how many times the script is run on the same host
MaxRuns == 2

\* Configuration block of the script
CONTAINER_NAME == "pocketbase"
PORT == 8090
DATA_DIR == "./pb_data"

PocketBaseImage == "ghcr.io/pocketbase/pocketbase:latest"

\* the containers a host may hold besides the script's own, and their images
ContainerNames == {CONTAINER_NAME, "pocketbase-old", "db", "web"}

ImageOf(n) ==
    CASE n = CONTAINER_NAME   -> PocketBaseImage
      [] n = "pocketbase-old" -> PocketBaseImage
      [] n = "db"             -> PocketBaseImage
      [] n = "web"            -> "nginx:latest"

\* the strings of a `docker ps` line, cut into the pieces grep can match in
Pieces(str) ==
    CASE str = "pocketbase"     -> <<"pocketbase">>
      [] str = "pocketbase-old" -> <<"pocketbase", "-old">>
      [] str = "db"             -> <<"db">>
      [] str = "web"            -> <<"web">>
      [] str = PocketBaseImage  ->
            <<"ghcr.io/", "pocketbase", "/", "pocketbase", ":latest">>
      [] str = "nginx:latest"   -> <<"nginx", ":latest">>

\* the line `docker ps` prints for container n: its image and its name
PsLine(n) == <<ImageOf(n), n>>

\* grep -q "$CONTAINER_NAME": does the pattern occur anywhere in the line
GrepMatches(line, pattern) ==
    \E k \in 1..Len(line) :
        \E j \in 1..Len(Pieces(line[k])) : Pieces(line[k])[j] = pattern

\* a docker run that publishes a second port beside the configured one
RunConfigTwoPorts ==
    [image  |-> PocketBaseImage,
     ports  |-> {<<PORT, 8090>>, <<8091, 8091>>},
     volume |-> <<DATA_DIR, "/pb/pb_data">>]

\* what `docker run` of the script asks for
RunConfig ==
    [image  |-> PocketBaseImage,
     ports  |-> {<<PORT, 8090>>},
     volume |-> <<DATA_DIR, "/pb/pb_data">>]

\* some other way a container named pocketbase may have been made before
ForeignConfig ==
    [image  |-> PocketBaseImage,
     ports  |-> {},
     volume |-> <<>>]

VARIABLES
    dockerInstalled, \* is `docker` a command on this host
    containers,      \* containers[n]: "absent", "created", "running" or "exited"
    config,          \* the configuration of the container named pocketbase, <<>> if absent
    dataDir,         \* the data directory: "absent", "empty" or "data"
    dataDir0,        \* the data directory when the current run started
    pb0,             \* the state of the container named pocketbase when the run started
    prev,            \* how the previous run on this host ended and left the host
    spc,             \* the script's position
    exitStatus,      \* <<>> while running, <<status>> once exited
    printed,         \* what the run has written to the terminal, in order: the
                     \* script's echoes and the errors of commands whose output
                     \* it does not discard
    steps,           \* the commands the script has executed, in order
    failures,        \* the executed commands that failed, in order
    started,         \* the containers `docker run` has created in this run
    runs             \* how many runs have been started

dockerVars ==
    <<dockerInstalled, containers, config, dataDir, dataDir0, pb0, prev, spc,
      exitStatus, printed, steps, failures, started, runs>>

hostVars == <<dockerInstalled, containers, config, dataDir>>

\* what is recorded when a run starts
runStart == <<dataDir0, pb0, prev>>

\* what a run leaves behind of the things the script touches
HostOutcome ==
    [container |-> containers[CONTAINER_NAME],
     config    |-> config,
     dataDir   |-> dataDir]

\* before the first run on a host
NoRun == [status |-> <<>>, host |-> <<>>]

DockerInit ==
    /\ dockerInstalled \in BOOLEAN
    /\ containers \in [ContainerNames -> {"absent", "running", "exited"}]
    /\ config \in (IF containers[CONTAINER_NAME] = "absent"
                   THEN {<<>>} ELSE {RunConfig, ForeignConfig})
    /\ dataDir \in {"absent", "empty", "data"}
    /\ dataDir0 = dataDir
    /\ pb0 = containers[CONTAINER_NAME]
    /\ prev = NoRun
    /\ spc = "start"
    /\ exitStatus = <<>>
    /\ printed = <<>>
    /\ steps = <<>>
    /\ failures = <<>>
    /\ started = <<>>
    /\ runs = 1

\* exit N, or set -e ending the script on a failed command
Exit(status) ==
    /\ spc' = "exited"
    /\ exitStatus' = <<status>>

\* lines 7-13: banner and configuration
Begin ==
    /\ spc = "start"
    /\ printed' = Append(printed, "banner")
    /\ spc' = "check_docker"
    /\ UNCHANGED <<hostVars, runStart, exitStatus, steps, failures,
                   started, runs>>

\* a check that reports the missing docker command but does not exit
CheckDockerWithoutExit ==
    /\ spc = "check_docker"
    /\ steps' = Append(steps, "command -v docker")
    /\ printed' = (IF dockerInstalled THEN printed
                   ELSE Append(printed, "error: docker not installed"))
    /\ failures' = (IF dockerInstalled THEN failures
                    ELSE Append(failures, "command -v docker"))
    /\ spc' = "check_existing"
    /\ UNCHANGED <<hostVars, runStart, exitStatus, started, runs>>

\* lines 15-20: if ! command -v docker; then echo ...; exit 1; fi
CheckDocker ==
    /\ spc = "check_docker"
    /\ steps' = Append(steps, "command -v docker")
    /\ IF dockerInstalled
       THEN /\ spc' = "check_existing"
            /\ UNCHANGED <<printed, exitStatus, failures>>
       ELSE /\ printed' = Append(printed, "error: docker not installed")
            /\ failures' = Append(failures, "command -v docker")
            /\ Exit(1)
    /\ UNCHANGED <<hostVars, runStart, started, runs>>

\* the containers `docker ps -a` lists (none when the command fails)
ListedAll(fault) ==
    IF dockerInstalled /\ ~fault
    THEN {n \in ContainerNames : containers[n] # "absent"}
    ELSE {}

\* the containers `docker ps` lists
ListedRunning(fault) ==
    IF dockerInstalled /\ ~fault
    THEN {n \in ContainerNames : containers[n] = "running"}
    ELSE {}

\* lines 22-24: if docker ps -a | grep -q "$CONTAINER_NAME"; then echo ...
\* The status of the pipeline is grep's: a failing `docker ps -a` lists
\* nothing and the condition is false.
CheckExisting(fault) ==
    /\ spc = "check_existing"
    /\ steps' = Append(steps, "docker ps -a")
    /\ failures' = (IF dockerInstalled /\ ~fault THEN failures
                    ELSE Append(failures, "docker ps -a"))
    /\ IF \E n \in ListedAll(fault) : GrepMatches(PsLine(n), CONTAINER_NAME)
       THEN /\ printed' = Append(printed, "warning: stopping existing")
            /\ spc' = "stop"
       ELSE /\ spc' = "mkdir"
            /\ UNCHANGED printed
    /\ UNCHANGED <<hostVars, runStart, exitStatus, started, runs>>

\* line 25: docker stop "$CONTAINER_NAME" > /dev/null 2>&1
StopContainer(fault) ==
    /\ spc = "stop"
    /\ steps' = Append(steps, "docker stop")
    /\ IF dockerInstalled /\ ~fault /\ containers[CONTAINER_NAME] # "absent"
       THEN /\ containers' =
                 [containers EXCEPT ![CONTAINER_NAME] =
                     IF @ = "running" THEN "exited" ELSE @]
            /\ spc' = "rm"
            /\ UNCHANGED <<exitStatus, failures>>
       ELSE /\ failures' = Append(failures, "docker stop")
            /\ Exit(1)
            /\ UNCHANGED containers
    /\ UNCHANGED <<dockerInstalled, config, dataDir, runStart, printed,
                   started, runs>>

\* line 26: docker rm "$CONTAINER_NAME" > /dev/null 2>&1
RemoveContainer(fault) ==
    /\ spc = "rm"
    /\ steps' = Append(steps, "docker rm")
    /\ IF /\ dockerInstalled /\ ~fault
          /\ containers[CONTAINER_NAME] \in {"created", "exited"}
       THEN /\ containers' = [containers EXCEPT ![CONTAINER_NAME] = "absent"]
            /\ config' = <<>>
            /\ spc' = "mkdir"
            /\ UNCHANGED <<exitStatus, failures>>
       ELSE /\ failures' = Append(failures, "docker rm")
            /\ Exit(1)
            /\ UNCHANGED <<containers, config>>
    /\ UNCHANGED <<dockerInstalled, dataDir, runStart, printed, started, runs>>

\* a script that clears the data directory before it creates it
\* (rm -rf "$DATA_DIR" && mkdir -p "$DATA_DIR")
MakeDataDirFresh(fault) ==
    /\ spc = "mkdir"
    /\ steps' = Append(steps, "mkdir -p")
    /\ IF ~fault
       THEN /\ printed' = Append(printed, "creating data directory")
            /\ dataDir' = "empty"
            /\ spc' = "run"
            /\ UNCHANGED <<exitStatus, failures>>
       ELSE /\ printed' = printed \o <<"creating data directory",
                                       "mkdir: cannot create directory">>
            /\ failures' = Append(failures, "mkdir -p")
            /\ Exit(1)
            /\ UNCHANGED dataDir
    /\ UNCHANGED <<dockerInstalled, containers, config, runStart, started, runs>>

\* a script that goes on to start the container when mkdir has failed
MakeDataDirIgnoringFailure(fault) ==
    /\ spc = "mkdir"
    /\ steps' = Append(steps, "mkdir -p")
    /\ spc' = "run"
    /\ IF ~fault
       THEN /\ printed' = Append(printed, "creating data directory")
            /\ dataDir' = (IF dataDir = "absent" THEN "empty" ELSE dataDir)
            /\ UNCHANGED failures
       ELSE /\ printed' = printed \o <<"creating data directory",
                                       "mkdir: cannot create directory">>
            /\ failures' = Append(failures, "mkdir -p")
            /\ UNCHANGED dataDir
    /\ UNCHANGED <<dockerInstalled, containers, config, runStart, exitStatus,
                   started, runs>>

\* lines 29-31: echo ...; mkdir -p "$DATA_DIR"
MakeDataDir(fault) ==
    /\ spc = "mkdir"
    /\ steps' = Append(steps, "mkdir -p")
    /\ IF ~fault
       THEN /\ printed' = Append(printed, "creating data directory")
            /\ dataDir' = (IF dataDir = "absent" THEN "empty" ELSE dataDir)
            /\ spc' = "run"
            /\ UNCHANGED <<exitStatus, failures>>
       ELSE /\ printed' = printed \o <<"creating data directory",
                                       "mkdir: cannot create directory">>
            /\ failures' = Append(failures, "mkdir -p")
            /\ Exit(1)
            /\ UNCHANGED dataDir
    /\ UNCHANGED <<dockerInstalled, containers, config, runStart, started, runs>>

\* the ways `docker run` can go wrong for reasons of the host
RunFaults == {"none", "before create", "after create"}

\* the container `docker run` creates, as the host then holds it
Created(state) ==
    [name |-> CONTAINER_NAME, config |-> RunConfig, state |-> state]

\* lines 33-39: echo ...; docker run -d --name ... -p ... -v ... image serve
RunContainer(fault) ==
    /\ spc = "run"
    /\ steps' = Append(steps, "docker run")
    /\ IF ~dockerInstalled
       THEN /\ printed' = printed \o <<"starting container",
                                       "docker: command not found">>
            /\ failures' = Append(failures, "docker run")
            /\ Exit(127)
            /\ UNCHANGED <<containers, config, started>>
       ELSE IF containers[CONTAINER_NAME] # "absent" \/ fault = "before create"
       THEN /\ printed' = printed \o <<"starting container",
                                       "docker: error response from daemon">>
            /\ failures' = Append(failures, "docker run")
            /\ Exit(125)
            /\ UNCHANGED <<containers, config, started>>
       ELSE IF fault = "after create"
       THEN /\ containers' = [containers EXCEPT ![CONTAINER_NAME] = "created"]
            /\ config' = RunConfig
            /\ started' = Append(started, Created("created"))
            /\ printed' = printed \o <<"starting container",
                                       "docker: error response from daemon">>
            /\ failures' = Append(failures, "docker run")
            /\ Exit(125)
       ELSE /\ containers' = [containers EXCEPT ![CONTAINER_NAME] = "running"]
            /\ config' = RunConfig
            /\ started' = Append(started, Created("running"))
            /\ printed' = Append(printed, "starting container")
            /\ spc' = "announce"
            /\ UNCHANGED <<exitStatus, failures>>
    /\ UNCHANGED <<dockerInstalled, dataDir, runStart, runs>>

\* lines 41-51: the echo block after the start
Announce ==
    /\ spc = "announce"
    /\ printed' = printed \o <<"started: urls and hints", "waiting">>
    /\ spc' = "sleep"
    /\ UNCHANGED <<hostVars, runStart, exitStatus, steps, failures,
                   started, runs>>

\* a wait that sleeps again until the container is seen running
SleepPolling ==
    /\ spc = "sleep"
    /\ steps' = Append(steps, "sleep 3")
    /\ spc' = (IF containers[CONTAINER_NAME] = "running" \/ Len(steps) > 8
               THEN "final_check" ELSE "sleep")
    /\ UNCHANGED <<hostVars, runStart, exitStatus, printed, failures,
                   started, runs>>

\* line 52: sleep 3
Sleep ==
    /\ spc = "sleep"
    /\ steps' = Append(steps, "sleep 3")
    /\ spc' = "final_check"
    /\ UNCHANGED <<hostVars, runStart, exitStatus, printed, failures,
                   started, runs>>

\* a final check that starts the container again when it is not running
FinalCheckRestarting(fault) ==
    /\ spc = "final_check"
    /\ steps' = Append(steps, "docker ps")
    /\ IF \E n \in ListedRunning(fault) : GrepMatches(PsLine(n), CONTAINER_NAME)
       THEN /\ printed' = Append(printed, "running successfully")
            /\ Exit(0)
            /\ UNCHANGED <<failures, containers, config>>
       ELSE IF Len(steps) < 10
       THEN /\ printed' = Append(printed, "error: something went wrong")
            /\ failures' = Append(failures, "docker ps")
            /\ containers' = [containers EXCEPT ![CONTAINER_NAME] = "absent"]
            /\ config' = <<>>
            /\ spc' = "run"
            /\ UNCHANGED exitStatus
       ELSE /\ printed' = Append(printed, "error: something went wrong")
            /\ failures' = Append(failures, "docker ps")
            /\ Exit(1)
            /\ UNCHANGED <<containers, config>>
    /\ UNCHANGED <<dockerInstalled, dataDir, runStart, started, runs>>

\* lines 54-60: if docker ps | grep -q "$CONTAINER_NAME"; then ... else ... exit 1
FinalCheck(fault) ==
    /\ spc = "final_check"
    /\ steps' = Append(steps, "docker ps")
    /\ IF \E n \in ListedRunning(fault) : GrepMatches(PsLine(n), CONTAINER_NAME)
       THEN /\ printed' = Append(printed, "running successfully")
            /\ Exit(0)
            /\ UNCHANGED failures
       ELSE /\ printed' = Append(printed, "error: something went wrong")
            /\ failures' = Append(failures, "docker ps")
            /\ Exit(1)
    /\ UNCHANGED <<hostVars, runStart, started, runs>>

\* a running container ends on its own while the script runs
ContainerExits(n) ==
    /\ spc \notin {"start", "exited"}
    /\ containers[n] = "running"
    /\ containers' = [containers EXCEPT ![n] = "exited"]
    /\ UNCHANGED <<dockerInstalled, config, dataDir, runStart, spc,
                   exitStatus, printed, steps, failures, started, runs>>

\* the script is run again on the same host
Rerun ==
    /\ spc = "exited"
    /\ runs < MaxRuns
    /\ runs' = runs + 1
    /\ spc' = "start"
    /\ exitStatus' = <<>>
    /\ printed' = <<>>
    /\ steps' = <<>>
    /\ failures' = <<>>
    /\ started' = <<>>
    /\ dataDir0' = dataDir
    /\ pb0' = containers[CONTAINER_NAME]
    /\ prev' = [status |-> exitStatus, host |-> HostOutcome]
    /\ UNCHANGED hostVars

----------------------------------------------------------------------------
(***************************************************************************)
(* The home page component.                                                *)
(***************************************************************************)

\* how many times the page is rendered
MaxRenders == 2

VARIABLES
    renders          \* what each rendering of the home page produced, in order

pageVars == <<renders>>

Element(tag, text, href) == [tag |-> tag, text |-> text, href |-> href]

\* the three cards of the grid
Cards ==
    <<Element("CardTitle", "Next.js 15", Null),
      Element("CardDescription", "App Router, Server Components, and Turbopack", Null),
      Element("p", "Built on the latest Next.js with TypeScript support", Null),
      Element("CardTitle", "Supabase Auth", Null),
      Element("CardDescription", "Email, OAuth, and magic links", Null),
      Element("p", "Pre-configured authentication with session management", Null),
      Element("CardTitle", "shadcn/ui", Null),
      Element("CardDescription", "Beautiful, accessible components", Null),
      Element("p", "Customizable components built with Radix and Tailwind", Null)>>

\* a page that shows how often it has been rendered
HomeCounting ==
    <<Element("h1", "Next.js + Supabase Starter", Null),
      Element("p", "A modern starter template with authentication ready to go", Null)>>
    \o Cards \o
    <<Element("a", "Get Started", "/login"),
      Element("a", "View on GitHub", "https://github.com"),
      Element("p", "rendered", Len(renders))>>

\* Home(): the elements the component returns, in document order; it takes
\* no props and uses no hook
Home ==
    <<Element("h1", "Next.js + Supabase Starter", Null),
      Element("p", "A modern starter template with authentication ready to go", Null)>>
    \o Cards \o
    <<Element("a", "Get Started", "/login"),
      Element("a", "View on GitHub", "https://github.com")>>

PageInit == renders = <<>>

\* the framework renders the page
Render ==
    /\ Len(renders) < MaxRenders
    /\ renders' = Append(renders, Home)
    /\ UNCHANGED <<authVars, dockerVars>>

----------------------------------------------------------------------------
(***************************************************************************)
(* Specifications.                                                         *)
(***************************************************************************)

\* no wrapper is ever invoked
AuthQuiet ==
    /\ windowDefined = TRUE
    /\ origin = "https://app.example"
    /\ client = NoClient
    /\ clientsCreated = 0
    /\ pc = [i \in Inv |-> "idle"]
    /\ wrapper = [i \in Inv |-> Null]
    /\ args = [i \in Inv |-> <<>>]
    /\ handle = [i \in Inv |-> NoClient]
    /\ sdkCalls = [i \in Inv |-> <<>>]
    /\ sdkOut = [i \in Inv |-> NoOutcome]
    /\ outcome = [i \in Inv |-> NoOutcome]

\* the script is never run
DockerQuiet ==
    /\ dockerInstalled = TRUE
    /\ containers = [n \in ContainerNames |-> "absent"]
    /\ config = <<>>
    /\ dataDir = "absent"
    /\ dataDir0 = "absent"
    /\ pb0 = "absent"
    /\ prev = NoRun
    /\ spc = "start"
    /\ exitStatus = <<>>
    /\ printed = <<>>
    /\ steps = <<>>
    /\ failures = <<>>
    /\ started = <<>>
    /\ runs = 1

\* Several invocations of the wrappers, interleaved at their awaits.
vars == <<authVars, dockerVars, pageVars>>

Init == AuthInit /\ DockerQuiet /\ PageInit

Next ==
    \/ /\ \E i \in Inv, w \in Wrappers : \E a \in OneArgs(w) : Call(i, w, a)
       /\ UNCHANGED <<dockerVars, pageVars>>
    \/ /\ \E i \in Inv : \E out \in SdkOutcomes(wrapper[i]) : SdkSettle(i, out)
       /\ UNCHANGED <<dockerVars, pageVars>>
    \/ /\ \E i \in Inv : Resume(i)
       /\ UNCHANGED <<dockerVars, pageVars>>

Spec == Init /\ [][Next]_vars

\* One invocation, over every argument value, while the home page is rendered.
InputsNext ==
    \/ /\ \E w \in Wrappers : \E a \in CallerArgs(w) : Call(1, w, a)
       /\ UNCHANGED <<dockerVars, pageVars>>
    \/ /\ \E out \in SdkOutcomes(wrapper[1]) : SdkSettle(1, out)
       /\ UNCHANGED <<dockerVars, pageVars>>
    \/ /\ Resume(1)
       /\ UNCHANGED <<dockerVars, pageVars>>
    \/ Render

InputsSpec == Init /\ [][InputsNext]_vars

\* the event loop runs the continuation of invocation i
Continue(i) == Resume(i) /\ UNCHANGED <<dockerVars, pageVars>>

\* One invocation on an event loop that runs a continuation once its awaited
\* promise has settled.  Nothing obliges the SDK to answer.
FairSpec == Init /\ [][InputsNext]_vars /\ WF_vars(Continue(1))

\* the wrappers that pass a redirect URL
Redirecting == {w \in Wrappers : ReadsWindow(w)}

\* Invocations of the redirecting wrappers from one page, over every argument
\* value, interleaved at their awaits.
PairNext ==
    \/ /\ \E i \in Inv, w \in Redirecting : \E a \in CallerArgs(w) : Call(i, w, a)
       /\ UNCHANGED <<dockerVars, pageVars>>
    \/ /\ \E i \in Inv : \E out \in SdkOutcomes(wrapper[i]) : SdkSettle(i, out)
       /\ UNCHANGED <<dockerVars, pageVars>>
    \/ /\ \E i \in Inv : Resume(i)
       /\ UNCHANGED <<dockerVars, pageVars>>

PairSpec == Init /\ [][PairNext]_vars

\* Runs of the bootstrap script on a host.
ScriptInit == AuthQuiet /\ DockerInit /\ PageInit

ScriptNext ==
    \/ Begin /\ UNCHANGED <<authVars, pageVars>>
    \/ CheckDocker /\ UNCHANGED <<authVars, pageVars>>
    \/ (\E fault \in BOOLEAN : CheckExisting(fault)) /\ UNCHANGED <<authVars, pageVars>>
    \/ (\E fault \in BOOLEAN : StopContainer(fault)) /\ UNCHANGED <<authVars, pageVars>>
    \/ (\E fault \in BOOLEAN : RemoveContainer(fault)) /\ UNCHANGED <<authVars, pageVars>>
    \/ (\E fault \in BOOLEAN : MakeDataDir(fault)) /\ UNCHANGED <<authVars, pageVars>>
    \/ (\E fault \in RunFaults : RunContainer(fault)) /\ UNCHANGED <<authVars, pageVars>>
    \/ Announce /\ UNCHANGED <<authVars, pageVars>>
    \/ Sleep /\ UNCHANGED <<authVars, pageVars>>
    \/ (\E fault \in BOOLEAN : FinalCheck(fault)) /\ UNCHANGED <<authVars, pageVars>>
    \/ (\E n \in ContainerNames : ContainerExits(n)) /\ UNCHANGED <<authVars, pageVars>>
    \/ Rerun /\ UNCHANGED <<authVars, pageVars>>

ScriptSpec == ScriptInit /\ [][ScriptNext]_vars

\* the steps of the script itself: bash goes on to the next command when
\* the current one has returned
ScriptStep ==
    \/ Begin /\ UNCHANGED <<authVars, pageVars>>
    \/ CheckDocker /\ UNCHANGED <<authVars, pageVars>>
    \/ (\E fault \in BOOLEAN : CheckExisting(fault)) /\ UNCHANGED <<authVars, pageVars>>
    \/ (\E fault \in BOOLEAN : StopContainer(fault)) /\ UNCHANGED <<authVars, pageVars>>
    \/ (\E fault \in BOOLEAN : RemoveContainer(fault)) /\ UNCHANGED <<authVars, pageVars>>
    \/ (\E fault \in BOOLEAN : MakeDataDir(fault)) /\ UNCHANGED <<authVars, pageVars>>
    \/ (\E fault \in RunFaults : RunContainer(fault)) /\ UNCHANGED <<authVars, pageVars>>
    \/ Announce /\ UNCHANGED <<authVars, pageVars>>
    \/ Sleep /\ UNCHANGED <<authVars, pageVars>>
    \/ (\E fault \in BOOLEAN : FinalCheck(fault)) /\ UNCHANGED <<authVars, pageVars>>

\* Runs of the script in which every command returns.
ScriptFairSpec ==
    ScriptInit /\ [][ScriptNext]_vars /\ WF_vars(ScriptStep)

----------------------------------------------------------------------------
(***************************************************************************)
(* Properties.                                                             *)
(***************************************************************************)

\* invocation i has issued an SDK call
Issued(i) == Len(sdkCalls[i]) > 0

\* two settled (or unsettled) promises ended the same way
SameOutcome(x, y) == x.kind = y.kind /\ x.value = y.value

\* the values the caller gave invocation i, under the names of the
\* wrapper's parameters
Supplied(i) ==
    {<<Params(wrapper[i])[k], args[i][k]>> : k \in 1..Len(args[i])}

\* C1: whenever the SDK call of a finished invocation resolved with a result
\* object, the wrapper returned (did not throw) a value equal to that result
\* object: the same fields holding the same data and the same error.
C1_ResultUnchanged ==
    \A i \in Inv :
        (pc[i] = "done" /\ sdkOut[i].kind = "return") =>
            /\ outcome[i].kind = "return"
            /\ outcome[i].value = sdkOut[i].value

\* a sign-in finished after the SDK resolved with data
C1_Witness ==
    \E i \in Inv :
        /\ pc[i] = "done"
        /\ wrapper[i] = "signInWithEmail"
        /\ sdkOut[i].kind = "return"
        /\ sdkOut[i].value.data = "d1"
        /\ outcome[i].value.data = "d1"

\* C2 (as stated): every SDK call carries exactly the values the caller
\* supplied, nothing added, dropped or altered.
C2_ArgsExactlySupplied ==
    \A i \in Inv :
        \A k \in 1..Len(sdkCalls[i]) : sdkCalls[i][k].args = Supplied(i)

\* C2 (amended): every SDK call carries every value the caller supplied,
\* unaltered and under its parameter's name; signInWithEmail,
\* signUpWithEmail, signOut and updatePassword add nothing to them, while
\* signInWithOAuth and resetPassword add exactly one value the caller did
\* not supply, the redirectTo option.
C2_ArgsSuppliedPlusRedirect ==
    \A i \in Inv :
        \A k \in 1..Len(sdkCalls[i]) :
            LET sent  == sdkCalls[i][k].args
                added == sent \ Supplied(i)
            IN  /\ Supplied(i) \subseteq sent
                /\ {p[1] : p \in added} =
                      (IF wrapper[i] \in {"signInWithOAuth", "resetPassword"}
                       THEN {"options.redirectTo"} ELSE {})
                /\ Cardinality(added) <= 1

\* a password reset for a malformed email has reached the SDK, carrying the
\* email and a redirect URL
C2_Witness ==
    \E i \in Inv :
        /\ Issued(i)
        /\ wrapper[i] = "resetPassword"
        /\ args[i] = <<"not-an-email">>
        /\ <<"email", "not-an-email">> \in sdkCalls[i][1].args
        /\ \E p \in sdkCalls[i][1].args : p[1] = "options.redirectTo"

\* C3: no invocation issues more than one SDK call, whatever its arguments
\* and however the call ended; a failed call is not repeated.
C3_AtMostOneSdkCall ==
    \A i \in Inv : Len(sdkCalls[i]) <= 1

\* an invocation finished after its SDK call failed, having called once
C3_Witness ==
    \E i \in Inv :
        /\ pc[i] = "done"
        /\ SdkFailed(i)
        /\ Len(sdkCalls[i]) = 1

\* C4: an error of the SDK call reaches the caller unchanged and in the way
\* it was produced: an error object in the resolved result is the error of
\* the returned value, and a rejection with E is a rejection with E.
C4_ErrorSurfacedUnchanged ==
    \A i \in Inv :
        pc[i] = "done" =>
            /\ sdkOut[i].kind = "return" =>
                  /\ outcome[i].kind = "return"
                  /\ outcome[i].value.error = sdkOut[i].value.error
            /\ sdkOut[i].kind = "throw" =>
                  /\ outcome[i].kind = "throw"
                  /\ outcome[i].value = sdkOut[i].value

\* an invocation finished by throwing what its SDK call threw
C4_Witness ==
    \E i \in Inv :
        /\ pc[i] = "done"
        /\ SameOutcome(sdkOut[i], [kind |-> "throw", value |-> "e2"])
        /\ SameOutcome(outcome[i], [kind |-> "throw", value |-> "e2"])

\* C5 (as stated): every error a finished invocation surfaces is the one its
\* SDK call produced, thrown if thrown and returned if returned; the wrapper
\* does not fail on its own account.
C5_ErrorsOnlyFromSdk ==
    \A i \in Inv :
        pc[i] = "done" =>
            /\ outcome[i].kind = "throw" =>
                  /\ sdkOut[i].kind = "throw"
                  /\ outcome[i].value = sdkOut[i].value
            /\ (outcome[i].kind = "return" /\ outcome[i].value.error # Null) =>
                  /\ sdkOut[i].kind = "return"
                  /\ outcome[i].value.error = sdkOut[i].value.error

\* C6 (as stated): an invocation, whatever its argument values, reaches the
\* SDK method with those values; the wrapper never ends the request itself.
C6_AlwaysReachesSdk ==
    \A i \in Inv :
        pc[i] # "idle" =>
            /\ Issued(i)
            /\ Supplied(i) \subseteq sdkCalls[i][1].args

\* C7: the wrappers keep nothing between invocations.  Of two finished
\* invocations of the same wrapper with the same arguments, each issued as
\* many SDK calls as the other (the repeat does not skip its call), they end
\* alike when their own SDK calls ended alike, and they end differently
\* when their own SDK calls ended differently.
C7_NoStateBetweenInvocations ==
    \A i \in Inv : \A j \in Inv :
        (/\ i # j /\ pc[i] = "done" /\ pc[j] = "done"
         /\ wrapper[i] = wrapper[j] /\ args[i] = args[j]) =>
            /\ Len(sdkCalls[i]) = Len(sdkCalls[j])
            /\ SameOutcome(sdkOut[i], sdkOut[j])
                  <=> SameOutcome(outcome[i], outcome[j])

\* the same call made twice, the first returned data and the second an error
C7_Witness ==
    \E i \in Inv : \E j \in Inv :
        /\ i < j /\ pc[i] = "done" /\ pc[j] = "done"
        /\ wrapper[i] = wrapper[j] /\ args[i] = args[j]
        /\ Len(sdkCalls[j]) = 1
        /\ outcome[i].kind = "return" /\ outcome[i].value.error = Null
        /\ outcome[j].kind = "return" /\ outcome[j].value.error = "e1"

\* C8: under every interleaving, a finished invocation that issued an SDK
\* call has settled, and settled with the outcome of its own call: thrown
\* with the same error if that call threw, returned with the same fields if
\* it resolved.
C8_OwnOutcomeUnderInterleaving ==
    \A i \in Inv :
        (pc[i] = "done" /\ Issued(i)) =>
            /\ outcome[i].kind # "none"
            /\ outcome[i].kind = sdkOut[i].kind
            /\ outcome[i].value = sdkOut[i].value

\* a later invocation has finished with a returned value while an earlier
\* one is still awaiting its own call
C8_Witness ==
    \E i \in Inv : \E j \in Inv :
        /\ i < j
        /\ pc[i] = "awaiting"
        /\ pc[j] = "done" /\ Issued(j)
        /\ outcome[j].kind = "return"

C10_DockerCheckedFirst ==
    /\ Len(steps) > 0 => steps[1] = "command -v docker"
    /\ ~dockerInstalled =>
          /\ \A k \in 1..Len(steps) : steps[k] = "command -v docker"
          /\ dataDir = dataDir0
          /\ spc = "exited" =>
                /\ exitStatus = <<1>>
                /\ printed = <<"banner", "error: docker not installed">>

\* a run on a host without docker and without a data directory has exited
C10_Witness ==
    /\ ~dockerInstalled
    /\ spc = "exited"
    /\ exitStatus = <<1>>
    /\ dataDir = "absent"

\* the run has executed the command
Executed(cmd) == \E k \in 1..Len(steps) : steps[k] = cmd

\* the run has executed the first command, and the second one later
ExecutedBefore(first, second) ==
    \E k \in 1..Len(steps) : \E l \in 1..Len(steps) :
        k < l /\ steps[k] = first /\ steps[l] = second

\* how many times the run has executed the command
TimesExecuted(cmd) == Cardinality({k \in 1..Len(steps) : steps[k] = cmd})

\* C11 (as stated): when a container named pocketbase existed as the run
\* started, running or stopped, a run that gets to `docker run` has stopped
\* and removed it first, and no container of that name exists at the moment
\* `docker run` is executed.
C11_ExistingRemovedBeforeRun ==
    /\ spc = "run" => containers[CONTAINER_NAME] = "absent"
    /\ (pb0 # "absent" /\ Executed("docker run")) =>
          /\ ExecutedBefore("docker stop", "docker rm")
          /\ ExecutedBefore("docker rm", "docker run")

\* C12: within one execution `docker run` is executed at most once, it
\* creates at most one container (the one named pocketbase), and it is only
\* executed on a host where the docker check, executed first, succeeded.
C12_RunOnceAfterDockerCheck ==
    /\ TimesExecuted("docker run") <= 1
    /\ Len(started) <= 1
    /\ \A k \in 1..Len(started) : started[k].name = CONTAINER_NAME
    /\ Executed("docker run") =>
          /\ dockerInstalled
          /\ steps[1] = "command -v docker"
          /\ \A k \in 1..Len(failures) : failures[k] # "command -v docker"

\* a run has started its one container and ended successfully
C12_Witness ==
    /\ spc = "exited"
    /\ exitStatus = <<0>>
    /\ TimesExecuted("docker run") = 1
    /\ Len(started) = 1
    /\ started[1].state = "running"

\* the steps whose failure the script is said to answer with an error
\* message and a non-zero exit
GuardedSteps ==
    {"command -v docker", "docker stop", "docker rm", "mkdir -p",
     "docker run", "docker ps"}

\* the error messages a run can write to the terminal
ErrorMessages ==
    {"error: docker not installed", "mkdir: cannot create directory",
     "docker: error response from daemon", "docker: command not found",
     "error: something went wrong"}

\* a failed step ended the run: non-zero exit, nothing executed after the
\* failed command, and the command executed once only
FailureEndsRun(cmd) ==
    /\ spc = "exited"
    /\ exitStatus # <<0>>
    /\ steps[Len(steps)] = cmd
    /\ TimesExecuted(cmd) = 1

\* C13 (as stated): whenever one of the steps (docker check, stop, remove,
\* directory creation, container run, final running check) has failed, the
\* run has ended there with a non-zero status, the last thing it wrote is
\* an error message, no later step was executed and the step was not
\* retried.
C13_FailurePrintsErrorAndExits ==
    \A k \in 1..Len(failures) :
        failures[k] \in GuardedSteps =>
            /\ FailureEndsRun(failures[k])
            /\ Len(printed) > 0
            /\ printed[Len(printed)] \in ErrorMessages

\* the commands of the script in the order of the file
StepOrder ==
    <<"command -v docker", "docker ps -a", "docker stop", "docker rm",
      "mkdir -p", "docker run", "sleep 3", "docker ps">>

\* the place of a command in the file
Rank(cmd) == CHOOSE r \in 1..Len(StepOrder) : StepOrder[r] = cmd

\* what the run has executed follows the order of the file, each command
\* at most once
StepsInOrder ==
    \A k \in 1..Len(steps) : \A l \in 1..Len(steps) :
        k < l => Rank(steps[k]) < Rank(steps[l])

\* C14: the script is linear.  At every moment the commands a run has
\* executed are in the fixed order docker check, lookup and removal of an
\* existing container, directory creation, container run, wait, running
\* check, none of them executed twice; and every run that is under way
\* comes to its exit.
C14_LinearAndTerminating ==
    /\ []StepsInOrder
    /\ (spc # "exited") ~> (spc = "exited")

\* a run has executed every command of the file, once each, and exited
C14_Witness ==
    /\ spc = "exited"
    /\ steps = StepOrder

\* C15: `docker run` is only reached with the data directory in place: a
\* run that is about to execute it, or has executed it, executed mkdir -p
\* before, mkdir -p did not fail, and the directory exists.
C15_DataDirBeforeRun ==
    (spc = "run" \/ Executed("docker run")) =>
        /\ dataDir # "absent"
        /\ Executed("mkdir -p")
        /\ \A k \in 1..Len(failures) : failures[k] # "mkdir -p"
        /\ Executed("docker run") => ExecutedBefore("mkdir -p", "docker run")

\* on a host without the directory a run has created it and gone on to
\* docker run
C15_Witness ==
    /\ dataDir0 = "absent"
    /\ dataDir = "empty"
    /\ Executed("docker run")
    /\ Len(started) = 1

\* the links of a rendered page
LinkElements(page) == {k \in 1..Len(page) : page[k].tag = "a"}

\* C16: every rendering of the home page yields the same content as the
\* first, with exactly two links, to /login and to https://github.com; and a
\* step that renders the page leaves the auth state (client, invocations,
\* SDK calls) and the host untouched.
C16_HomeStatic ==
    /\ [](\A k \in 1..Len(renders) :
            /\ renders[k] = renders[1]
            /\ Cardinality(LinkElements(renders[k])) = 2
            /\ {renders[k][l].href : l \in LinkElements(renders[k])}
                  = {"/login", "https://github.com"})
    /\ [][renders' # renders => UNCHANGED <<authVars, dockerVars>>]_vars

\* the page has been rendered twice while a wrapper invocation was under way
C16_Witness ==
    /\ Len(renders) >= 2
    /\ pc[1] = "awaiting"

\* C17: every SDK call signInWithOAuth makes names exactly one provider, the
\* one the caller supplied, and it is google, github or discord.
C17_OAuthProviderForwarded ==
    \A i \in Inv :
        (wrapper[i] = "signInWithOAuth" /\ Issued(i)) =>
            LET named == {p \in sdkCalls[i][1].args : p[1] = "provider"}
            IN  /\ named = {<<"provider", args[i][1]>>}
                /\ args[i][1] \in {"google", "github", "discord"}

\* an OAuth sign-in with discord has reached the SDK
C17_Witness ==
    \E i \in Inv :
        /\ wrapper[i] = "signInWithOAuth"
        /\ args[i] = <<"discord">>
        /\ Issued(i)
        /\ <<"provider", "discord">> \in sdkCalls[i][1].args

\* C18: a container created by `docker run` of the script publishes exactly
\* one port, host port 8090 to container port 8090; and when the run has
\* created the container, that is the configuration of the container named
\* pocketbase on the host.
C18_OnePortPublished ==
    /\ \A k \in 1..Len(started) :
          started[k].config.ports = {<<8090, 8090>>}
    /\ Len(started) > 0 =>
          /\ containers[CONTAINER_NAME] # "absent"
          /\ config.ports = {<<8090, 8090>>}
          /\ Cardinality(config.ports) = 1

\* a run has replaced a container made otherwise by its own, now running
C18_Witness ==
    /\ pb0 # "absent"
    /\ Len(started) = 1
    /\ containers[CONTAINER_NAME] = "running"
    /\ config.ports = {<<8090, 8090>>}

\* the SDK method that corresponds to each wrapper
CorrespondingMethod ==
    [signInWithEmail |-> "signInWithPassword",
     signUpWithEmail |-> "signUp",
     signOut         |-> "signOut",
     signInWithOAuth |-> "signInWithOAuth",
     resetPassword   |-> "resetPasswordForEmail",
     updatePassword  |-> "updateUser"]

\* C19: every SDK call of an invocation is a call of the method that
\* corresponds to its wrapper, and updatePassword passes the password field
\* and no other.
C19_CorrespondingMethodOnly ==
    \A i \in Inv :
        \A k \in 1..Len(sdkCalls[i]) :
            /\ sdkCalls[i][k].method = CorrespondingMethod[wrapper[i]]
            /\ wrapper[i] = "updatePassword" =>
                  {p[1] : p \in sdkCalls[i][k].args} = {"password"}

\* a sign-up and nothing else has been issued for a sign-up invocation
C19_Witness ==
    \E i \in Inv :
        /\ wrapper[i] = "signUpWithEmail"
        /\ Len(sdkCalls[i]) = 1
        /\ sdkCalls[i][1].method = "signUp"
        /\ pc[i] = "done"

\* C20: the redirectTo of every SDK call of signInWithOAuth is the page
\* origin followed by /auth/callback, and that of every SDK call of
\* resetPassword is the page origin followed by /auth/reset-password.
C20_RedirectFromOrigin ==
    \A i \in Inv :
        Issued(i) =>
            LET redirects ==
                  {p \in sdkCalls[i][1].args : p[1] = "options.redirectTo"}
            IN  /\ wrapper[i] = "signInWithOAuth" =>
                      redirects = {<<"options.redirectTo",
                                     origin \o "/auth/callback">>}
                /\ wrapper[i] = "resetPassword" =>
                      redirects = {<<"options.redirectTo",
                                     origin \o "/auth/reset-password">>}

\* a password reset made from the page at https://app.example
C20_Witness ==
    \E i \in Inv :
        /\ wrapper[i] = "resetPassword"
        /\ Issued(i)
        /\ origin = "https://app.example"
        /\ <<"options.redirectTo", "https://app.example/auth/reset-password">>
              \in sdkCalls[i][1].args

\* the redirect URLs among the arguments of the SDK call of invocation i
RedirectsPassed(i) ==
    {p[2] : p \in {q \in sdkCalls[i][1].args : q[1] = "options.redirectTo"}}

\* C21: two invocations of signInWithOAuth, or two of resetPassword, that
\* have reached the SDK from the same page pass the same single redirect
\* URL, whatever provider or email each was given.
C21_RedirectIndependentOfArgs ==
    \A i, j \in Inv :
        (/\ Issued(i) /\ Issued(j)
         /\ wrapper[i] = wrapper[j]
         /\ wrapper[i] \in {"signInWithOAuth", "resetPassword"}) =>
            /\ Cardinality(RedirectsPassed(i)) = 1
            /\ RedirectsPassed(i) = RedirectsPassed(j)

\* two password resets for different emails, and two OAuth sign-ins with
\* different providers, have reached the SDK
C21_Witness ==
    \E i, j \in Inv :
        /\ Issued(i) /\ Issued(j)
        /\ wrapper[i] = wrapper[j]
        /\ wrapper[i] \in {"signInWithOAuth", "resetPassword"}
        /\ args[i] # args[j]
        /\ RedirectsPassed(i) = RedirectsPassed(j)

\* C22: the promise of an invocation that issued an SDK call settles only
\* when that call has settled, and an invocation whose SDK call has settled
\* (with data, with an error object, or by throwing) eventually completes.
C22_ReturnsAfterSdkAndOnlyAfter ==
    /\ [](\A i \in Inv :
            (Issued(i) /\ (pc[i] = "done" \/ outcome[i].kind # "none"))
                => sdkOut[i].kind # "none")
    /\ \A i \in Inv : (pc[i] = "settled") ~> (pc[i] = "done")

\* an invocation has completed after its SDK call threw
C22_Witness ==
    \E i \in Inv :
        /\ pc[i] = "done" /\ Issued(i)
        /\ sdkOut[i].kind = "throw" /\ outcome[i].kind = "throw"

\* C23: a run that has exited with status 0 leaves the container named
\* pocketbase running as its final check saw the host, and a run whose final
\* check came upon that container not running has printed the error and
\* exited with status 1.
C23_ExitZeroOnlyIfRunning ==
    (spc = "exited" /\ Executed("docker ps")) =>
        /\ exitStatus = <<0>> => containers[CONTAINER_NAME] = "running"
        /\ containers[CONTAINER_NAME] # "running" =>
              /\ exitStatus = <<1>>
              /\ printed[Len(printed)] = "error: something went wrong"

\* C24: on a host with Docker and no container named pocketbase when the
\* run started, the run executes neither docker stop nor docker rm, and once
\* it has listed the containers it is at, or past, mkdir -p and (unless mkdir
\* failed) at, or past, docker run.
C24_NoStopWithoutExactName ==
    (dockerInstalled /\ pb0 = "absent") =>
        /\ ~Executed("docker stop")
        /\ ~Executed("docker rm")
        /\ Executed("docker ps -a") =>
              /\ spc = "mkdir" \/ Executed("mkdir -p")
              /\ (Executed("mkdir -p") /\ ~Executed("docker run")) =>
                    \/ spc = "run"
                    \/ \E k \in 1..Len(failures) : failures[k] = "mkdir -p"

\* C25: when a run that followed a run with exit status 0 has itself exited
\* with status 0, the host holds what the earlier run left: the container
\* named pocketbase running, publishing port 8090 and no other, and the data
\* directory, with the same content.
C25_RerunIdempotent ==
    (spc = "exited" /\ exitStatus = <<0>> /\ prev.status = <<0>>) =>
        /\ containers[CONTAINER_NAME] = "running"
        /\ prev.host.container = "running"
        /\ config.ports = {<<8090, 8090>>}
        /\ dataDir # "absent"
        /\ HostOutcome = prev.host

\* C26: at every point of a run, a data directory that existed when the run
\* started is as it was then, empty or with its data, and every container
\* the run has created mounts ./pb_data of the host at /pb/pb_data.
C26_DataKept ==
    /\ dataDir0 # "absent" => dataDir = dataDir0
    /\ \A k \in 1..Len(started) :
          started[k].config.volume = <<"./pb_data", "/pb/pb_data">>

\* a run on a host with data has stopped and removed the existing container,
\* started the new one and exited with status 0, the data still there
C26_Witness ==
    /\ dataDir0 = "data"
    /\ dataDir = "data"
    /\ Executed("docker rm")
    /\ Len(started) = 1
    /\ started[1].config.volume[1] = DATA_DIR
    /\ exitStatus = <<0>>

====
